---- MODULE Spec2Model ----
(***************************************************************************)
(* SchedulingService (src/main.py): a browser-driven check for open        *)
(* appointment slots with a per-(appointment type, date preference) cache. *)
(*                                                                         *)
(* Python values are tagged records: None, a str (a sequence of tokens:    *)
(* "October 02, 2024" is <<"October", "02", "2024">>, the separators being *)
(* fixed by the formats), a tuple, a list, a page handle, or a raised      *)
(* exception.                                                              *)
(***************************************************************************)
EXTENDS Integers, Sequences, FiniteSets, TLC

VARIABLES
    playwright,   \* self.playwright : "None" | "started" | "stopped"
    browser,      \* self.browser    : "None" | "open" | "closed"
    context,      \* self.context    : "None" | "open"
    page,         \* self.page       : "None" | "open" | "closed"
    closed,       \* self.closed
    state,        \* self.state, the cache: key -> value
    now,          \* what datetime.now() reads
    dom,          \* the active time slots the booking widget shows
    pc,           \* where the caller is
    calls,        \* number of check_available_appointments calls so far
    last,         \* the last operation called: its arguments, outcome and trace
    returned      \* key -> what the first call that returned for it returned

vars == <<playwright, browser, context, page, closed, state, now, dom, pc, calls, last,
          returned>>

-----------------------------------------------------------------------------
(* Python values *)

None == [kind |-> "None"]

StrV(toks) == [kind |-> "str", toks |-> toks]

ListV(items) == [kind |-> "list", items |-> items]

TupleV(month, day, year) == [kind |-> "tuple", month |-> month, day |-> day, year |-> year]

PageV(id) == [kind |-> "page", id |-> id]

Raise(exc) == [kind |-> "raise", exc |-> exc]

Slot(date, time) == [date |-> date, time |-> time]

\* needle in haystack, for str: a contiguous run of the haystack's tokens
Contains(haystack, needle) ==
    \E i \in 0..(Len(haystack) - Len(needle)) :
        \A j \in 1..Len(needle) : haystack[i + j] = needle[j]

-----------------------------------------------------------------------------
(* datetime: the proleptic Gregorian calendar, as datetime.date computes it *)

MonthNames ==
    <<"January", "February", "March", "April", "May", "June", "July",
      "August", "September", "October", "November", "December">>

\* strptime's %B matches the month name without regard to case
LowerMonthNames ==
    <<"january", "february", "march", "april", "may", "june", "july",
      "august", "september", "october", "november", "december">>

DayNames ==
    <<"Monday", "Tuesday", "Wednesday", "Thursday", "Friday", "Saturday", "Sunday">>

\* %d and %Y as strftime writes them
Pad2 ==
    <<"01", "02", "03", "04", "05", "06", "07", "08", "09", "10",
      "11", "12", "13", "14", "15", "16", "17", "18", "19", "20",
      "21", "22", "23", "24", "25", "26", "27", "28", "29", "30", "31">>

\* %d as strptime also reads it: without the leading zero
Unpadded ==
    <<"1", "2", "3", "4", "5", "6", "7", "8", "9", "10",
      "11", "12", "13", "14", "15", "16", "17", "18", "19", "20",
      "21", "22", "23", "24", "25", "26", "27", "28", "29", "30", "31">>

YearTokens == <<"2020", "2021", "2022", "2023", "2024", "2025", "2026">>

\* the years those tokens read as
YearNumbers == <<2020, 2021, 2022, 2023, 2024, 2025, 2026>>

YearTok(y) == YearTokens[CHOOSE i \in 1..Len(YearNumbers) : YearNumbers[i] = y]

IsLeap(y) == (y % 4 = 0) /\ ((y % 100 # 0) \/ (y % 400 = 0))

DaysInMonth(y, m) ==
    IF m = 2 THEN (IF IsLeap(y) THEN 29 ELSE 28)
    ELSE IF m \in {4, 6, 9, 11} THEN 30 ELSE 31

RECURSIVE DaysBeforeMonth(_, _)
DaysBeforeMonth(y, m) ==
    IF m = 1 THEN 0 ELSE DaysBeforeMonth(y, m - 1) + DaysInMonth(y, m - 1)

DaysBeforeYear(y) ==
    ((y - 1) * 365) + ((y - 1) \div 4) - ((y - 1) \div 100) + ((y - 1) \div 400)

ToOrdinal(y, m, d) == DaysBeforeYear(y) + DaysBeforeMonth(y, m) + d

\* date.weekday(): Monday is 0
Weekday(y, m, d) == (ToOrdinal(y, m, d) + 6) % 7

\* a datetime; tod is the time of day: 0 is midnight, anything later is positive
DateTime(y, m, d, tod) == [y |-> y, m |-> m, d |-> d, tod |-> tod]

\* a >= b on datetimes
DateTimeGE(a, b) ==
    \/ a.y > b.y
    \/ a.y = b.y /\ a.m > b.m
    \/ a.y = b.y /\ a.m = b.m /\ a.d > b.d
    \/ a.y = b.y /\ a.m = b.m /\ a.d = b.d /\ a.tod >= b.tod

\* the index a token has in a table, 0 when it has none
IndexIn(table, tok) ==
    IF \E i \in 1..Len(table) : table[i] = tok
    THEN CHOOSE i \in 1..Len(table) : table[i] = tok
    ELSE 0

\* datetime.fromisoformat(date) for a str: the datetime, or ValueError
FromIsoFormat(toks) ==
    IF Len(toks) # 3 THEN Raise("ValueError")
    ELSE LET y == IndexIn(YearTokens, toks[1])
             m == IndexIn(Pad2, toks[2])
             d == IndexIn(Pad2, toks[3])
         IN IF y = 0 \/ m = 0 \/ d = 0 \/ m > 12 THEN Raise("ValueError")
            ELSE IF d > DaysInMonth(YearNumbers[y], m) THEN Raise("ValueError")
            ELSE DateTime(YearNumbers[y], m, d, 0)

\* datetime.strptime(s, '%B %d, %Y') for a str: the datetime, or ValueError
StrpTime(toks) ==
    IF Len(toks) # 3 THEN Raise("ValueError")
    ELSE LET y == IndexIn(YearTokens, toks[3])
             m == IF IndexIn(MonthNames, toks[1]) # 0
                  THEN IndexIn(MonthNames, toks[1])
                  ELSE IndexIn(LowerMonthNames, toks[1])
             d == IF IndexIn(Pad2, toks[2]) # 0
                  THEN IndexIn(Pad2, toks[2])
                  ELSE IndexIn(Unpadded, toks[2])
         IN IF y = 0 \/ m = 0 \/ d = 0 THEN Raise("ValueError")
            ELSE IF d > DaysInMonth(YearNumbers[y], m) THEN Raise("ValueError")
            ELSE DateTime(YearNumbers[y], m, d, 0)

\* dt.strftime('%A, %B %d, %Y')
StrfLong(dt) ==
    <<DayNames[Weekday(dt.y, dt.m, dt.d) + 1], MonthNames[dt.m], Pad2[dt.d], YearTok(dt.y)>>

-----------------------------------------------------------------------------
(* SchedulingService.format_date *)

\* fromisoformat raises TypeError for an argument that is not a str, and
\* format_date catches ValueError only
format_date(date) ==
    IF date.kind # "str" THEN Raise("TypeError")
    ELSE LET dt == FromIsoFormat(date.toks)
         IN IF "kind" \in DOMAIN dt THEN None ELSE StrV(StrfLong(dt))

(* SchedulingService.validate_date *)

PastDateError == StrV(<<"Error: The preferred date is in the past.">>)

FormatError == StrV(<<"Error: Invalid date format.">>)

\* validate_date, were the comparison with the current date left out
validate_date_any_day(date_preference, current_date) ==
    LET preferred_date == StrpTime(date_preference.toks)
    IN IF "kind" \in DOMAIN preferred_date THEN FormatError
       ELSE TupleV(MonthNames[preferred_date.m], preferred_date.d, preferred_date.y)

validate_date(date_preference, current_date) ==
    LET preferred_date == StrpTime(date_preference.toks)
    IN IF "kind" \in DOMAIN preferred_date THEN FormatError
       ELSE IF DateTimeGE(preferred_date, current_date)
            THEN TupleV(MonthNames[preferred_date.m], preferred_date.d, preferred_date.y)
            ELSE PastDateError

-----------------------------------------------------------------------------
(* The browser: every awaited call on a page or an element is one           *)
(* interaction. A call of a public operation carries the faults of its run:  *)
(* env.failAt is the interaction that fails (0: none), counting the         *)
(* interactions other than screenshots from 1, and env.shotFailAt the       *)
(* screenshot that fails (0: none). An interaction on a closed browser      *)
(* fails. A run is [trace, n, s, ret]: the interactions so far, how many of *)
(* them are not screenshots, how many are, and the value or the exception.  *)

Act(op, on, arg) == [op |-> op, on |-> on, arg |-> arg]

IsRaise(v) == v.kind = "raise"

Start == [trace |-> <<>>, n |-> 0, s |-> 0, ret |-> None]

\* the interactions of plan in order, up to the first that fails
Run(plan, self, st, env) ==
    LET bad == {i \in 1..Len(plan) : self.browser # "open" \/ st.n + i = env.failAt}
        k == IF bad = {} THEN Len(plan) ELSE CHOOSE i \in bad : \A j \in bad : i <= j
    IN [trace |-> st.trace \o SubSeq(plan, 1, k),
        n |-> st.n + k,
        s |-> st.s,
        ret |-> IF bad = {} THEN None ELSE Raise("Error")]

\* await self.page.screenshot(path=...), in an except handler
Screenshot(path, self, st, env) ==
    IF self.page = "None" THEN [st EXCEPT !.ret = Raise("AttributeError")]
    ELSE [trace |-> Append(st.trace, Act("screenshot", "page", path)),
          n |-> st.n,
          s |-> st.s + 1,
          ret |-> IF self.browser # "open" \/ env.shotFailAt = st.s + 1
                  THEN Raise("Error") ELSE None]

(* SchedulingService.navigate_to_scheduling_page *)

navigate_to_scheduling_page(self, env) ==
    IF self.page = "None" THEN [Start EXCEPT !.ret = Raise("AttributeError")]
    ELSE Run(<<Act("goto", "page", "self.url"),
               Act("wait_for_load_state", "page", "networkidle")>>, self, Start, env)

(* SchedulingService.select_appointment_type *)

selector_map ==
    [appointment_type \in {"New appointment", "Emergency appointment",
                           "Invisalign consultation", "Virtual Invisalign consultation"} |->
        CASE appointment_type = "New appointment" -> "(//div[@class='wpb_wrapper']/h6[contains(text(), 'New Patient Exams')]/parent::*/parent::*/following-sibling::a)[1]"
          [] appointment_type = "Emergency appointment" -> "(//div[@class='wpb_wrapper']/h6[contains(text(), 'Emergency Appointments')]/parent::*/parent::*/following-sibling::a)[1]"
          [] appointment_type = "Invisalign consultation" -> "(//div[@class='wpb_wrapper']/h6[contains(text(), 'In-Office Invisalign Consultations')]/parent::*/parent::*/following-sibling::a)[1]"
          [] appointment_type = "Virtual Invisalign consultation" -> "(//div[@class='wpb_wrapper']/h6[contains(text(), 'Virtual Invisalign Consultations')]/parent::*/parent::*/following-sibling::a)[1]"]

booking_option_map ==
    [appointment_type \in {"New appointment", "Emergency appointment",
                           "Invisalign consultation", "Virtual Invisalign consultation"} |->
        CASE appointment_type = "New appointment" -> "New Patient Exam - 60 min"
          [] appointment_type = "Emergency appointment" -> "Emergency Appointment - 30 min"
          [] appointment_type = "Invisalign consultation" -> "In-Office Invisalign Consultation - 60 min"
          [] appointment_type = "Virtual Invisalign consultation" -> "Virtual Invisalign Consultation - 30 min"]

\* line 125
booking_option_selector(appointment_option_text) ==
    "//div[@class='ib-booking-option-title'][contains(text(), '"
    \o appointment_option_text \o "')]"

\* SelectPlan, were the booking option clicked before the three fixed clicks
SelectPlanOptionFirst(appointment_type) ==
    <<Act("click", "page", selector_map[appointment_type]),
      Act("expect_page", "context", "value"),
      Act("wait_for_load_state", "new_page", "networkidle"),
      Act("click", "new_page", booking_option_selector(booking_option_map[appointment_type])),
      Act("click", "new_page", "(//div[@class='ib-booking_select-box ']/span)[1]"),
      Act("click", "new_page", "(//div[@class='ib-booking_center-footer'])/a"),
      Act("click", "new_page", "(//div[@class='ib-booking-option '])[1]")>>

\* lines 113-126: the click that opens the tab, the new page, its load
\* state, the three fixed clicks, the booking option of the type
SelectPlan(appointment_type) ==
    <<Act("click", "page", selector_map[appointment_type]),
      Act("expect_page", "context", "value"),
      Act("wait_for_load_state", "new_page", "networkidle"),
      Act("click", "new_page", "(//div[@class='ib-booking_select-box ']/span)[1]"),
      Act("click", "new_page", "(//div[@class='ib-booking_center-footer'])/a"),
      Act("click", "new_page", "(//div[@class='ib-booking-option '])[1]"),
      Act("click", "new_page", booking_option_selector(booking_option_map[appointment_type]))>>

\* lines 131-133: the except handler, after the try body ran as `body`
SelectExcept(appointment_type, body, self, env) ==
    IF ~IsRaise(body.ret) THEN [body EXCEPT !.ret = PageV("new_page")]
    ELSE Screenshot("./errors/error_screenshot_" \o appointment_type \o ".png",
                    self, body, env)

select_appointment_type(appointment_type, self, st, env) ==
    IF appointment_type \notin DOMAIN selector_map THEN [st EXCEPT !.ret = None]
    ELSE SelectExcept(appointment_type,
                      IF self.page = "None"
                      THEN [st EXCEPT !.ret = Raise("AttributeError")]
                      ELSE Run(SelectPlan(appointment_type), self, st, env),
                      self, env)

(* SchedulingService.get_available_slots *)

ACTIVE_TIME_SLOTS == "//span[@class='ib-booking-active ']"

\* lines 145-147, after the slot's attribute and text were read in run r
SlotFormatted(slots, i, available_slots, formatted_date, r) ==
    IF IsRaise(formatted_date) THEN [next |-> FALSE, st |-> [r EXCEPT !.ret = formatted_date]]
    ELSE [next |-> TRUE,
          available_slots |->
              IF formatted_date.kind = "str"
              THEN Append(available_slots, Slot(formatted_date.toks, slots[i].text))
              ELSE available_slots]

\* the for loop of lines 142-147 from slot i on; a slot is [time, text]: its
\* 'time' attribute (None when it has none) and its inner text
RECURSIVE SlotLoop(_, _, _, _, _, _)
SlotLoopStep(slots, i, available_slots, self, r, env) ==
    IF IsRaise(r.ret) THEN r
    ELSE LET f == SlotFormatted(slots, i, available_slots, format_date(slots[i].time), r)
         IN IF f.next THEN SlotLoop(slots, i + 1, f.available_slots, self, r, env)
            ELSE f.st

SlotLoop(slots, i, available_slots, self, st, env) ==
    IF i > Len(slots) THEN [st EXCEPT !.ret = ListV(available_slots)]
    ELSE SlotLoopStep(slots, i, available_slots, self,
                      Run(<<Act("get_attribute", "slot", "time"),
                            Act("inner_text", "slot", "")>>, self, st, env),
                      env)

\* lines 141-148, after query_selector_all ran as q
SlotsQueried(slots, q, self, env) ==
    IF IsRaise(q.ret) THEN q ELSE SlotLoop(slots, 1, <<>>, self, q, env)

\* line 153, after the handler's screenshot ran as h
SlotsEmpty(h) ==
    IF IsRaise(h.ret) THEN h ELSE [h EXCEPT !.ret = ListV(<<>>)]

\* lines 150-153: the except handler, after the try body ran as `body`
SlotsExcept(body, self, env) ==
    IF ~IsRaise(body.ret) THEN body
    ELSE SlotsEmpty(Screenshot("error_screenshot_slots.png", self, body, env))

get_available_slots(new_page, slots, self, st, env) ==
    SlotsExcept(IF new_page.kind # "page" THEN [st EXCEPT !.ret = Raise("AttributeError")]
                ELSE SlotsQueried(slots,
                                  Run(<<Act("query_selector_all", "new_page",
                                            ACTIVE_TIME_SLOTS)>>, self, st, env),
                                  self, env),
                self, env)

(* SchedulingService.set_date_preference *)

\* filtered_slots, were the slots matched on the month and the day alone
filtered_slots_any_year(available_slots, date_preference) ==
    LET Keep(slot) == Contains(slot.date, SubSeq(date_preference.toks, 1, 2))
    IN SelectSeq(available_slots, Keep)

\* line 169
filtered_slots(available_slots, date_preference) ==
    LET Keep(slot) == Contains(slot.date, date_preference.toks)
    IN SelectSeq(available_slots, Keep)

\* DatePlan, were Next Month clicked until the picker is past the month
DatePlanEveryMonth(month, current_date) ==
    <<Act("click", "new_page", "//div[@class='react-datepicker__input-container']")>>
    \o (IF MonthNames[current_date.m] # month
        THEN <<Act("click", "new_page", "//button[contains(text(), 'Next Month')]"),
               Act("click", "new_page", "//button[contains(text(), 'Next Month')]")>>
        ELSE <<>>)

\* lines 162-165: the date picker, and Next Month when the month names differ
DatePlan(month, current_date) ==
    <<Act("click", "new_page", "//div[@class='react-datepicker__input-container']")>>
    \o (IF MonthNames[current_date.m] # month
        THEN <<Act("click", "new_page", "//button[contains(text(), 'Next Month')]")>>
        ELSE <<>>)

\* lines 169-170, after get_available_slots ran as g
DateFiltered(date_preference, g) ==
    IF IsRaise(g.ret) THEN g
    ELSE [g EXCEPT !.ret = ListV(filtered_slots(g.ret.items, date_preference))]

\* lines 168-170, after the clicks ran as c
DateClicked(new_page, date_preference, slots, c, self, env) ==
    IF IsRaise(c.ret) THEN c
    ELSE DateFiltered(date_preference, get_available_slots(new_page, slots, self, c, env))

\* lines 160-173, validate_date having returned validated_date
DateValidated(new_page, date_preference, validated_date, slots, current_date, self, st, env) ==
    IF validated_date.kind # "tuple" THEN [st EXCEPT !.ret = None]
    ELSE IF new_page.kind # "page" THEN [st EXCEPT !.ret = Raise("AttributeError")]
    ELSE DateClicked(new_page, date_preference, slots,
                     Run(DatePlan(validated_date.month, current_date), self, st, env),
                     self, env)

\* lines 174-176: the except handler, after the try body ran as `body`
DateExcept(body, self, env) ==
    IF ~IsRaise(body.ret) THEN body
    ELSE Screenshot("error_screenshot_date.png", self, body, env)

set_date_preference(new_page, date_preference, slots, current_date, self, st, env) ==
    DateExcept(DateValidated(new_page, date_preference,
                             validate_date(date_preference, current_date),
                             slots, current_date, self, st, env),
               self, env)

(* SchedulingService.check_available_appointments *)

\* if date_preference: None and the empty str are false
Truthy(v) == v.kind = "str" /\ v.toks # <<>>

Key(appointment_type, date_preference) == <<appointment_type, date_preference>>

\* lines 189-192, select_appointment_type having run as sel
Selected(sel, date_preference, slots, current_date, self, env) ==
    IF IsRaise(sel.ret) THEN sel
    ELSE IF Truthy(date_preference)
         THEN set_date_preference(sel.ret, date_preference, slots, current_date,
                                  self, sel, env)
         ELSE get_available_slots(sel.ret, slots, self, sel, env)

\* Cached, were a failed lookup (None, or no slots) left out of the cache
CachedUnlessFailed(cache, key, r) ==
    IF IsRaise(r.ret) \/ r.ret = None \/ r.ret = ListV(<<>>)
    THEN [ret |-> r.ret, trace |-> r.trace, state |-> cache]
    ELSE [ret |-> r.ret, trace |-> r.trace,
          state |-> [k \in DOMAIN cache \cup {key} |->
                        IF k = key THEN r.ret ELSE cache[k]]]

\* Cached, were the result the only entry the cache keeps
CachedAlone(cache, key, r) ==
    IF IsRaise(r.ret)
    THEN [ret |-> r.ret, trace |-> r.trace, state |-> cache]
    ELSE [ret |-> r.ret, trace |-> r.trace, state |-> [k \in {key} |-> r.ret]]

\* lines 195-196, the lookup having run as r
Cached(cache, key, r) ==
    IF IsRaise(r.ret)
    THEN [ret |-> r.ret, trace |-> r.trace, state |-> cache]
    ELSE [ret |-> r.ret, trace |-> r.trace,
          state |-> [k \in DOMAIN cache \cup {key} |->
                        IF k = key THEN r.ret ELSE cache[k]]]

\* what the call does: [ret, trace, state], state being self.state after it
check_available_appointments(appointment_type, date_preference, cache, slots, current_date, self, env) ==
    IF Key(appointment_type, date_preference) \in DOMAIN cache
    THEN [ret |-> cache[Key(appointment_type, date_preference)], trace |-> <<>>,
          state |-> cache]
    ELSE Cached(cache, Key(appointment_type, date_preference),
                Selected(select_appointment_type(appointment_type, self, Start, env),
                         date_preference, slots, current_date, self, env))

-----------------------------------------------------------------------------
(* The inputs *)

MaxCalls == 2

MaxNodes == 2

AppointmentTypes == DOMAIN selector_map \cup {"Teeth whitening"}

Instants ==
    {DateTime(2024, 9, 30, 1), DateTime(2024, 10, 2, 0), DateTime(2024, 10, 2, 1),
     DateTime(2024, 12, 31, 1)}

DatePreferences ==
    {StrV(<<"October", "02", "2024">>), StrV(<<"October", "2", "2024">>),
     StrV(<<"october", "02", "2024">>), StrV(<<"September", "30", "2024">>),
     StrV(<<"November", "15", "2024">>), StrV(<<"December", "31", "2024">>),
     StrV(<<"January", "01", "2025">>), StrV(<<"October", "02", "2025">>),
     StrV(<<"January", "01", "2020">>), StrV(<<"February", "30", "2025">>),
     StrV(<<"2024", "10", "02">>), StrV(<<"not-a-date">>), StrV(<<>>)}

RawDates ==
    {StrV(<<"2024", "09", "30">>), StrV(<<"2024", "10", "02">>),
     StrV(<<"2025", "10", "02">>), StrV(<<"not-a-date">>), None}

\* a slot of each of those dates, and a later one on one of them
Nodes ==
    [time : RawDates, text : {"9:00 AM"}]
    \cup {[time |-> StrV(<<"2024", "10", "02">>), text |-> "10:30 AM"]}

RECURSIVE SeqsUpTo(_, _)
SeqsUpTo(S, n) ==
    IF n = 0 THEN {<<>>}
    ELSE LET shorter == SeqsUpTo(S, n - 1)
         IN shorter \cup {Append(q, x) : q \in {r \in shorter : Len(r) = n - 1}, x \in S}

Doms == SeqsUpTo(Nodes, MaxNodes)

\* what the service as a whole is run against
DatePreferenceSamples ==
    {None, StrV(<<"October", "02", "2024">>), StrV(<<"not-a-date">>)}

InstantSamples == {DateTime(2024, 9, 30, 1)}

DomSamples ==
    {<<>>,
     <<[time |-> StrV(<<"2024", "09", "30">>), text |-> "9:00 AM"],
       [time |-> StrV(<<"2024", "10", "02">>), text |-> "10:30 AM"]>>}

\* the interactions of a selection
Selecting == Len(SelectPlan("New appointment"))

\* the interactions past it: two clicks on the date picker, the query, two
\* reads for each slot
Extracting(slots) == 3 + 2 * Len(slots)

\* the faults a call of up to n interactions can meet
Envs(n) == [failAt : 0..n, shotFailAt : 0..2]

\* of those, the ones where no second screenshot fails
EnvSamples(n) == {env \in Envs(n) : env.shotFailAt \in {0, 1}}

Self == [page |-> page, browser |-> browser]

\* no interaction and no screenshot of the call fails
Clean(env) == env.failAt = 0 /\ env.shotFailAt = 0

Called(op) ==
    [op |-> op, appointment_type |-> "", date_preference |-> None, arg |-> None,
     clean |-> TRUE, hit |-> FALSE, ret |-> None, trace |-> <<>>]

-----------------------------------------------------------------------------
(* The service, driven as main drives it: initialize_browser, *)
(* navigate_to_scheduling_page and the checks in a try block, close_browser *)
(* in its finally block.                                                    *)

\* __init__, lines 8-15
Constructed ==
    /\ playwright = "None"
    /\ browser = "None"
    /\ context = "None"
    /\ page = "None"
    /\ closed = TRUE
    /\ state = <<>>
    /\ calls = 0
    /\ last = Called("__init__")
    /\ returned = <<>>

Init ==
    /\ Constructed
    /\ pc = "initialize_browser"
    /\ now \in InstantSamples
    /\ dom \in DomSamples

\* where main goes on after a call: on, or to the finally block
After(ret, on) == IF IsRaise(ret) THEN "close_browser" ELSE on

\* initialize_browser; the awaited step `fail` raises (0: none does)
InitializeBrowser(fail) ==
    /\ pc = "initialize_browser"
    /\ playwright' = IF fail = 1 THEN playwright ELSE "started"
    /\ browser' = IF fail \in {1, 2} THEN browser ELSE "open"
    /\ context' = IF fail \in {1, 2, 3} THEN context ELSE "open"
    /\ page' = IF fail \in {1, 2, 3, 4} THEN page ELSE "open"
    /\ last' = [Called("initialize_browser") EXCEPT
                    !.ret = IF fail = 0 THEN None ELSE Raise("Error")]
    /\ pc' = After(last'.ret, "navigate_to_scheduling_page")
    /\ UNCHANGED <<closed, state, now, dom, calls, returned>>

\* line 66
close_browser_closes == ~closed

\* close_browser, from the finally block
CloseBrowser ==
    /\ pc \in {"check_available_appointments", "close_browser"}
    /\ pc' = "done"
    /\ IF close_browser_closes
       THEN IF page = "None"
            THEN /\ last' = [Called("close_browser") EXCEPT !.ret = Raise("AttributeError")]
                 /\ UNCHANGED <<page, browser, playwright, closed>>
            ELSE /\ page' = "closed"
                 /\ browser' = "closed"
                 /\ playwright' = "stopped"
                 /\ closed' = TRUE
                 /\ last' = Called("close_browser")
       ELSE /\ last' = Called("close_browser")
            /\ UNCHANGED <<page, browser, playwright, closed>>
    /\ UNCHANGED <<context, state, now, dom, calls, returned>>

\* the call having run as r: what the caller saw
Navigated(r, env) ==
    /\ last' = [Called("navigate_to_scheduling_page") EXCEPT
                    !.clean = Clean(env), !.ret = r.ret, !.trace = r.trace]
    /\ pc' = After(r.ret, "check_available_appointments")

\* navigate_to_scheduling_page
NavigateToSchedulingPage(env) ==
    /\ pc = "navigate_to_scheduling_page"
    /\ Navigated(navigate_to_scheduling_page(Self, env), env)
    /\ UNCHANGED <<playwright, browser, context, page, closed, state, now, dom, calls,
                   returned>>

\* the call having run as r: the cache and what the caller saw
Checked(appointment_type, date_preference, r, env) ==
    /\ state' = r.state
    /\ last' = [Called("check_available_appointments") EXCEPT
                    !.appointment_type = appointment_type,
                    !.date_preference = date_preference,
                    !.hit = (Key(appointment_type, date_preference) \in DOMAIN state),
                    !.clean = Clean(env),
                    !.ret = r.ret, !.trace = r.trace]
    /\ pc' = After(r.ret, "check_available_appointments")
    /\ returned' =
           IF IsRaise(r.ret) \/ Key(appointment_type, date_preference) \in DOMAIN returned
           THEN returned
           ELSE [k \in DOMAIN returned \cup {Key(appointment_type, date_preference)} |->
                    IF k = Key(appointment_type, date_preference) THEN r.ret
                    ELSE returned[k]]

\* check_available_appointments
CheckAvailableAppointments(appointment_type, date_preference, env) ==
    /\ pc = "check_available_appointments"
    /\ calls < MaxCalls
    /\ calls' = calls + 1
    /\ Checked(appointment_type, date_preference,
               check_available_appointments(appointment_type, date_preference, state,
                                            dom, now, Self, env),
               env)
    /\ UNCHANGED <<playwright, browser, context, page, closed, now, dom>>

\* the booking widget comes to show other slots
SiteChanges ==
    /\ pc = "check_available_appointments"
    /\ dom' \in DomSamples \ {dom}
    /\ UNCHANGED <<playwright, browser, context, page, closed, state, now, pc, calls, last,
                   returned>>

Next ==
    \/ \E fail \in 0..4 : InitializeBrowser(fail)
    \/ \E env \in Envs(2) : NavigateToSchedulingPage(env)
    \/ \E appointment_type \in AppointmentTypes,
          date_preference \in DatePreferenceSamples, env \in EnvSamples(Selecting + Extracting(dom)) :
            CheckAvailableAppointments(appointment_type, date_preference, env)
    \/ SiteChanges
    \/ CloseBrowser

Spec == Init /\ [][Next]_vars

-----------------------------------------------------------------------------
(* The methods, each called once on its own: on a service that is fresh or *)
(* has its browser open, at any of the instants, against any page.         *)

MethodInit ==
    /\ \/ Constructed /\ dom = <<>>
       \/ /\ playwright = "started"
          /\ browser = "open"
          /\ context = "open"
          /\ page = "open"
          /\ closed = TRUE
          /\ state = <<>>
          /\ calls = 0
          /\ last = Called("initialize_browser")
          /\ returned = <<>>
          /\ dom \in Doms
    /\ pc = "call"
    /\ now \in Instants

MethodFrame ==
    /\ pc = "call"
    /\ pc' = "done"
    /\ UNCHANGED <<playwright, browser, context, page, closed, state, now, dom, calls,
                   returned>>

\* the method having run as r: what the caller saw
Ran(op, appointment_type, date_preference, arg, r, env) ==
    last' = [Called(op) EXCEPT !.appointment_type = appointment_type,
                               !.date_preference = date_preference,
                               !.arg = arg, !.clean = Clean(env),
                               !.ret = r.ret, !.trace = r.trace]

CallFormatDate(date) ==
    /\ MethodFrame
    /\ last' = [Called("format_date") EXCEPT !.arg = date, !.ret = format_date(date)]

CallValidateDate(date_preference) ==
    /\ MethodFrame
    /\ last' = [Called("validate_date") EXCEPT
                    !.date_preference = date_preference,
                    !.ret = validate_date(date_preference, now)]

CallSelectAppointmentType(appointment_type, env) ==
    /\ MethodFrame
    /\ Ran("select_appointment_type", appointment_type, None, None,
           select_appointment_type(appointment_type, Self, Start, env), env)

CallGetAvailableSlots(new_page, env) ==
    /\ MethodFrame
    /\ Ran("get_available_slots", "", None, new_page,
           get_available_slots(new_page, dom, Self, Start, env), env)

CallSetDatePreference(new_page, date_preference, env) ==
    /\ MethodFrame
    /\ Ran("set_date_preference", "", date_preference, new_page,
           set_date_preference(new_page, date_preference, dom, now, Self, Start, env),
           env)

MethodNext ==
    \/ \E date \in RawDates : CallFormatDate(date)
    \/ \E date_preference \in DatePreferences : CallValidateDate(date_preference)
    \/ \E appointment_type \in AppointmentTypes, env \in Envs(Selecting) :
            CallSelectAppointmentType(appointment_type, env)
    \/ \E new_page \in {None, PageV("new_page")}, env \in Envs(Extracting(dom)) :
            CallGetAvailableSlots(new_page, env)
    \/ \E new_page \in {None, PageV("new_page")}, date_preference \in DatePreferences,
          env \in Envs(Extracting(dom)) :
            CallSetDatePreference(new_page, date_preference, env)

MethodSpec == MethodInit /\ [][MethodNext]_vars

-----------------------------------------------------------------------------
(* Properties of the service as main drives it (Spec) *)

LastKey == Key(last.appointment_type, last.date_preference)

CheckReturned == last.op = "check_available_appointments" /\ ~IsRaise(last.ret)

\* C1: once initialize_browser has completed, close_browser closes the page,
\* the browser and the automation engine: when main's finally block has run
\* on an initialized service, none of the three is left open.
C1_CloseBrowserReleasesSession ==
    (pc = "done" /\ page # "None") =>
        (page = "closed" /\ browser = "closed" /\ playwright = "stopped")

\* C2: a call of check_available_appointments(t, d) made after a call with
\* the same (t, d) has returned performs no browser interaction and returns
\* the value that first call returned, whatever that value was.
C2_CacheIdempotence ==
    [][(/\ calls' = calls + 1
        /\ LastKey' \in DOMAIN returned)
       => (/\ last'.trace = <<>>
           /\ last'.ret = returned[LastKey']
           /\ last'.hit)]_vars

\* a second call for a valid date preference answers None with no interaction:
\* what a failure of the first call left in the cache
C2_Witness ==
    /\ CheckReturned
    /\ last.hit
    /\ last.trace = <<>>
    /\ last.date_preference = StrV(<<"October", "02", "2024">>)
    /\ last.ret = None
    /\ calls = 2

\* C3: no failure of a browser interaction inside navigate_to_scheduling_page
\* or check_available_appointments reaches the caller: neither ever raises.
C3_NoFailurePropagates ==
    last.op \in {"navigate_to_scheduling_page", "check_available_appointments"}
        => ~IsRaise(last.ret)

\* C4: a check_available_appointments call that misses the cache and returns
\* stores exactly what it returns under its key and changes no other entry; a
\* hit changes none; no step removes or overwrites an entry.
C4_CacheFrame ==
    [][/\ \A k \in DOMAIN state : k \in DOMAIN state' /\ state'[k] = state[k]
       /\ IF calls' = calls + 1 /\ ~last'.hit /\ ~IsRaise(last'.ret)
          THEN /\ DOMAIN state' = DOMAIN state \cup {LastKey'}
               /\ state'[LastKey'] = last'.ret
          ELSE state' = state]_vars

\* a miss has stored its result beside an entry of an earlier call
C4_Witness ==
    /\ CheckReturned
    /\ ~last.hit
    /\ LastKey \in DOMAIN state
    /\ state[LastKey] = last.ret
    /\ Cardinality(DOMAIN state) = 2

-----------------------------------------------------------------------------
(* Properties of the methods (MethodSpec) *)

\* a date preference's month, day and year when it is written "Month DD, YYYY"
PrefMonth(p) == IF Len(p.toks) = 3 THEN IndexIn(MonthNames, p.toks[1]) ELSE 0

PrefDay(p) == IF Len(p.toks) = 3 THEN IndexIn(Pad2, p.toks[2]) ELSE 0

PrefYear(p) ==
    IF Len(p.toks) = 3 /\ IndexIn(YearTokens, p.toks[3]) # 0
    THEN YearNumbers[IndexIn(YearTokens, p.toks[3])] ELSE 0

WellFormed(p) ==
    /\ PrefMonth(p) # 0
    /\ PrefYear(p) # 0
    /\ PrefDay(p) \in 1..DaysInMonth(PrefYear(p), PrefMonth(p))

\* its calendar day is before today
PastDay(p) ==
    /\ WellFormed(p)
    /\ \/ PrefYear(p) < now.y
       \/ PrefYear(p) = now.y /\ PrefMonth(p) < now.m
       \/ PrefYear(p) = now.y /\ PrefMonth(p) = now.m /\ PrefDay(p) < now.d

\* strings no reading of "Month DD, YYYY" makes a date of
Unreadable ==
    {StrV(<<"not-a-date">>), StrV(<<"2024", "10", "02">>),
     StrV(<<"February", "30", "2025">>), StrV(<<>>)}

\* C5, as claimed: for an invalid date preference set_date_preference returns
\* the format-error sentinel when the string is malformed and the past-date
\* sentinel when it is well formed but in the past.
C5_SetDatePreferenceReturnsSentinel ==
    last.op = "set_date_preference" =>
        /\ last.date_preference \in Unreadable => last.ret = FormatError
        /\ PastDay(last.date_preference) => last.ret = PastDateError

\* C5, as amended: for an invalid date preference validate_date returns the
\* format-error sentinel when the string is malformed and the distinct
\* past-date sentinel when its day is before today; set_date_preference then
\* returns None, and touches the browser not at all.
C5_InvalidPreferenceRejected ==
    /\ FormatError # PastDateError
    /\ last.op = "validate_date" =>
        /\ last.date_preference \in Unreadable => last.ret = FormatError
        /\ PastDay(last.date_preference) => last.ret = PastDateError
    /\ (/\ last.op = "set_date_preference"
        /\ last.date_preference \in Unreadable \/ PastDay(last.date_preference))
       => (last.ret = None /\ last.trace = <<>>)

\* set_date_preference was given a page and a date of the past
C5_Witness ==
    /\ last.op = "set_date_preference"
    /\ last.arg = PageV("new_page")
    /\ browser = "open"
    /\ PastDay(last.date_preference)
    /\ last.ret = None

\* C6: validate_date returns the tuple (month name, day, year) for every well
\* formed preference whose day is today or later, and the past-date sentinel
\* only for one whose day is before today.
C6_ValidateDateAcceptsPresent ==
    (last.op = "validate_date" /\ WellFormed(last.date_preference)) =>
        IF PastDay(last.date_preference)
        THEN last.ret = PastDateError
        ELSE last.ret = TupleV(MonthNames[PrefMonth(last.date_preference)],
                               PrefDay(last.date_preference),
                               PrefYear(last.date_preference))

\* a 'time' attribute that is an ISO date
Parseable(raw) ==
    /\ raw.kind = "str"
    /\ Len(raw.toks) = 3
    /\ IndexIn(YearTokens, raw.toks[1]) # 0
    /\ IndexIn(Pad2, raw.toks[2]) \in 1..12
    /\ IndexIn(Pad2, raw.toks[3]) \in
           1..DaysInMonth(YearNumbers[IndexIn(YearTokens, raw.toks[1])],
                          IndexIn(Pad2, raw.toks[2]))

\* "Weekday, Month DD, YYYY" of such an attribute
LongDate(raw) ==
    <<DayNames[Weekday(YearNumbers[IndexIn(YearTokens, raw.toks[1])],
                       IndexIn(Pad2, raw.toks[2]), IndexIn(Pad2, raw.toks[3])) + 1],
      MonthNames[IndexIn(Pad2, raw.toks[2])], raw.toks[3], raw.toks[1]>>

\* one Slot for each node with such an attribute, in the order of the nodes
ExpectedSlots(slots) ==
    LET Kept(node) == Parseable(node.time)
        kept == SelectSeq(slots, Kept)
    IN [i \in 1..Len(kept) |-> Slot(LongDate(kept[i].time), kept[i].text)]

\* C7: get_available_slots returns one Slot for every matched node whose raw
\* date can be reformatted, in DOM order, and drops only the nodes whose date
\* cannot be parsed, a node without the attribute among them.
C7_ExtractionKeepsParseableSlots ==
    (/\ last.op = "get_available_slots"
     /\ last.arg = PageV("new_page")
     /\ browser = "open"
     /\ last.clean)
    => last.ret = ListV(ExpectedSlots(dom))

PickerClick == Act("click", "new_page", "//div[@class='react-datepicker__input-container']")

NextMonthClick == Act("click", "new_page", "//button[contains(text(), 'Next Month')]")

\* the month a preference that validate_date accepted asks for
AskedMonth(p) ==
    IF IndexIn(MonthNames, p.toks[1]) # 0 THEN IndexIn(MonthNames, p.toks[1])
    ELSE IndexIn(LowerMonthNames, p.toks[1])

\* how many calendar months after the current one it lies
MonthsAhead(p) ==
    (YearNumbers[IndexIn(YearTokens, p.toks[3])] * 12 + AskedMonth(p))
    - (now.y * 12 + now.m)

Extracted == \E i \in DOMAIN last.trace : last.trace[i].op = "query_selector_all"

NextMonthClicks == Cardinality({i \in DOMAIN last.trace : last.trace[i] = NextMonthClick})

\* C8: set_date_preference clicks Next Month at most once and makes no other
\* move in the picker; when it comes to extract the slots it has first opened
\* the picker, then clicked Next Month exactly when the month asked for is not
\* the current one, so that the picker shows the month asked for whenever
\* that is the current or the next calendar month.
C8_DatePickerNavigation ==
    last.op = "set_date_preference" =>
        /\ NextMonthClicks <= 1
        /\ \A i \in DOMAIN last.trace :
               last.trace[i].op = "click" => last.trace[i] \in {PickerClick, NextMonthClick}
        /\ Extracted =>
            /\ last.trace[1] = PickerClick
            /\ \A i, q \in DOMAIN last.trace :
                   (last.trace[i] = NextMonthClick /\ last.trace[q].op = "query_selector_all")
                       => (1 < i /\ i < q)
            /\ NextMonthClicks =
                   IF AskedMonth(last.date_preference) # now.m THEN 1 ELSE 0
            /\ MonthsAhead(last.date_preference) \in {0, 1}
                   => NextMonthClicks = MonthsAhead(last.date_preference)

\* the slots of a date in January were extracted on the last day of December
C8_Witness ==
    /\ last.op = "set_date_preference"
    /\ Extracted
    /\ now.m = 12
    /\ MonthsAhead(last.date_preference) = 1
    /\ NextMonthClicks = 1
    /\ last.ret.kind = "list"

\* what select_appointment_type is to do for a type, in order
ExpectedSelection(appointment_type) ==
    <<Act("click", "page", selector_map[appointment_type]),
      Act("expect_page", "context", "value"),
      Act("wait_for_load_state", "new_page", "networkidle"),
      Act("click", "new_page", "(//div[@class='ib-booking_select-box ']/span)[1]"),
      Act("click", "new_page", "(//div[@class='ib-booking_center-footer'])/a"),
      Act("click", "new_page", "(//div[@class='ib-booking-option '])[1]"),
      Act("click", "new_page", booking_option_selector(booking_option_map[appointment_type]))>>

NotScreenshot(act) == act.op # "screenshot"

\* C9: select_appointment_type with a label outside the four types touches
\* the browser not at all, raises nothing and returns None; with one of the
\* four it clicks the label's selector on the main page, waits for the new
\* page, makes the three fixed clicks and clicks the booking option of the
\* label's title, in this order, and returns the new page.
C9_SelectionSequence ==
    last.op = "select_appointment_type" =>
        IF last.appointment_type \notin DOMAIN selector_map
        THEN last.trace = <<>> /\ last.ret = None
        ELSE /\ SelectSeq(last.trace, NotScreenshot)
                    = SubSeq(ExpectedSelection(last.appointment_type), 1,
                             Len(SelectSeq(last.trace, NotScreenshot)))
             /\ last.ret.kind = "page" => last.trace = ExpectedSelection(last.appointment_type)
             /\ (last.clean /\ browser = "open") => last.ret = PageV("new_page")

\* the emergency appointment was selected
C9_Witness ==
    /\ last.op = "select_appointment_type"
    /\ last.appointment_type = "Emergency appointment"
    /\ last.ret = PageV("new_page")
    /\ Len(last.trace) = 7

HasDate(node) == node.time.kind = "str"

\* C10: the list set_date_preference returns holds, in the order of
\* extraction, exactly the extracted slots whose formatted date contains the
\* date preference; no slot of another date is in it.
C10_FilteredSlots ==
    (last.op = "set_date_preference" /\ last.ret.kind = "list") =>
        /\ \A i \in DOMAIN last.ret.items :
               SubSeq(last.ret.items[i].date, 2, 4) = last.date_preference.toks
        /\ (last.clean /\ \A i \in DOMAIN dom : HasDate(dom[i])) =>
               LET Asked(slot) == SubSeq(slot.date, 2, 4) = last.date_preference.toks
               IN last.ret.items = SelectSeq(ExpectedSlots(dom), Asked)

\* of two slots extracted, the one of the preferred date was returned
C10_Witness ==
    /\ last.op = "set_date_preference"
    /\ last.clean
    /\ last.ret.kind = "list"
    /\ Len(last.ret.items) = 1
    /\ Len(ExpectedSlots(dom)) = 2

====
